---- MODULE Spec2Model ----
(***************************************************************************)
(* Model of src/app.py: the Streamlit translation application.  A text is  *)
(* a sequence of one-character strings.  Every action is one script run    *)
(* (Streamlit reruns the script on each widget interaction); the batch     *)
(* loop of the "Translate File" run is unfolded row by row.  The provider  *)
(* (googletrans) is external: each detect / translate call either raises   *)
(* or returns a value chosen nondeterministically.                         *)
(***************************************************************************)
EXTENDS Integers, Sequences, FiniteSets, TLC

VARIABLES
    history,        \* st.session_state.history
    source_lang,    \* st.session_state.source_lang
    target_lang,    \* st.session_state.target_lang
    input_text,     \* st.session_state.input_text (the text area)
    app_mode,       \* the sidebar radio
    last_op,        \* the handler the latest script run executed
    args,           \* arguments of the latest perform_translation call
    ret,            \* value returned by the latest perform_translation call
    calls,          \* provider calls issued during the current run, in order
    errors,         \* number of st.error messages emitted during the current run
    uncaught,       \* exception that terminated the current run, if any
    history_df,     \* the history table rendered by the current run
    pc,             \* position of the current run inside the batch handler
    df,             \* cells of the selected column of the uploaded table
    dest_code,      \* target code of the batch run
    i,              \* number of rows the batch loop has processed
    translations,   \* the batch loop's list of outcomes
    progress_bar,   \* current value of the progress bar
    progress,       \* values passed to progress_bar.progress, in order
    out_column      \* the column assigned to df after the loop

vars == << history, source_lang, target_lang, input_text, app_mode, last_op,
           args, ret, calls, errors, uncaught, history_df, pc, df, dest_code,
           i, translations, progress_bar, progress, out_column >>

sessionVars == << history, source_lang, target_lang, input_text, app_mode >>
batchVars == << pc, df, dest_code, i, translations, progress_bar, progress, out_column >>

-----------------------------------------------------------------------------
(* Bounds *)

MaxLen == 2         \* longest text given to perform_translation on its own
MaxRows == 2        \* most rows in an uploaded table
MaxHistory == 2     \* most entries the history grows to

-----------------------------------------------------------------------------
(* Texts *)

Chars == {" ", "a"}

IsSpace(c) == c = " "

TextsUpTo(n) == UNION {[1..k -> Chars] : k \in 0..n}

Texts == TextsUpTo(MaxLen)

\* Texts typed into the text area and found in table cells.
SampleTexts == {<< >>, <<" ">>, <<"a">>}

RECURSIVE LStrip(_)
LStrip(s) == IF s # << >> /\ IsSpace(Head(s)) THEN LStrip(Tail(s)) ELSE s

RECURSIVE RStrip(_)
RStrip(s) ==
    IF s # << >> /\ IsSpace(s[Len(s)]) THEN RStrip(SubSeq(s, 1, Len(s) - 1)) ELSE s

\* str.strip()
Strip(s) == RStrip(LStrip(s))

\* a variant that tests only "not text"
IsBlank_no_strip(text) == text = << >>

\* "not text or not text.strip()"
IsBlank(text) == text = << >> \/ Strip(text) = << >>

-----------------------------------------------------------------------------
(* Language catalog *)

AutomaticDetection == "Automatic Detection"

\* googletrans.LANGUAGES, code -> name, in insertion order
LANGUAGES == << <<"en", "english">>, <<"ur", "urdu">> >>

Codes == {LANGUAGES[k][1] : k \in 1..Len(LANGUAGES)}

\* list(LANGUAGES.values())
lang_values == [k \in 1..Len(LANGUAGES) |-> LANGUAGES[k][2]]

\* ["Automatic Detection"] + lang_values
lang_options == <<AutomaticDetection>> \o lang_values

Range(s) == {s[k] : k \in 1..Len(s)}

\* {name: code for code, name in LANGUAGES.items()}: the last code of a name wins
NameToCode ==
    [name \in Range(lang_values) |->
        LET k == CHOOSE k \in 1..Len(LANGUAGES) :
                    /\ LANGUAGES[k][2] = name
                    /\ \A m \in (k+1)..Len(LANGUAGES) : LANGUAGES[m][2] # name
        IN LANGUAGES[k][1]]

\* a variant without the "Automatic Detection" entry
lang_codes_without_auto == NameToCode

\* lang_codes, with lang_codes["Automatic Detection"] = "auto"
lang_codes ==
    [name \in Range(lang_options) |->
        IF name = AutomaticDetection THEN "auto" ELSE NameToCode[name]]

-----------------------------------------------------------------------------
(* Provider *)

\* translator.detect(text): raises, or returns an object whose .lang is a code
\* (possibly one the catalog does not hold)
DetectOutcomes ==
    {[raises |-> TRUE, lang |-> "None"]}
        \cup {[raises |-> FALSE, lang |-> c] : c \in Codes \cup {"xx"}}

\* translator.translate(text, src, dest): raises, or returns an object whose
\* .text is the input echoed, another text, or the empty text
TranslateOutcomes(text) ==
    {[raises |-> TRUE, text |-> << >>]}
        \cup {[raises |-> FALSE, text |-> t] : t \in {text, <<"b">>, << >>}}

\* a provider call as the run saw it: what was asked, whether it raised, and
\* what it returned (lang for detect, out for translate)
DetectCall(text, d) ==
    [op |-> "detect", text |-> text, src |-> "None", dest |-> "None",
     raised |-> d.raises, lang |-> d.lang, out |-> << >>]

TranslateCall(text, src, dest, t) ==
    [op |-> "translate", text |-> text, src |-> src, dest |-> dest,
     raised |-> t.raises, lang |-> "None", out |-> t.text]

-----------------------------------------------------------------------------
(* perform_translation *)

\* the pair (None, None)
NoneResult == [none |-> TRUE, text |-> << >>, src |-> "None"]

Result(text, src) == [none |-> FALSE, text |-> text, src |-> src]

\* Python truthiness of the first component of the returned pair
Truthy(r) == ~r.none /\ r.text # << >>

\* a variant that never rebinds src to the detected language
EffectiveSource_requested(src, d) == src

\* "if src == 'auto': src = translator.detect(text).lang"
EffectiveSource(src, d) == IF src = "auto" THEN d.lang ELSE src

\* a variant without the try / except
OnException_reraise(issued) ==
    [ret |-> NoneResult, calls |-> issued, errors |-> 0, escaped |-> TRUE]

\* "except Exception as e: st.error(...); return None, None"
OnException(issued) ==
    [ret |-> NoneResult, calls |-> issued, errors |-> 1, escaped |-> FALSE]

\* perform_translation(text, src, dest) with the provider answering d to detect
\* and t to translate.  escaped: an exception left the function.
perform_translation(text, src, dest, d, t) ==
    IF IsBlank(text)
    THEN [ret |-> NoneResult, calls |-> << >>, errors |-> 0, escaped |-> FALSE]
    ELSE IF src = "auto" /\ d.raises
    THEN OnException(<<DetectCall(text, d)>>)
    ELSE LET src2 == EffectiveSource(src, d)
             before == IF src = "auto" THEN <<DetectCall(text, d)>> ELSE << >>
             issued == before \o <<TranslateCall(text, src2, dest, t)>>
         IN IF t.raises
            THEN OnException(issued)
            ELSE [ret |-> Result(t.text, src2), calls |-> issued, errors |-> 0,
                  escaped |-> FALSE]

NoArgs == [text |-> << >>, src |-> "None", dest |-> "None"]

Args(text, src, dest) == [text |-> text, src |-> src, dest |-> dest]

-----------------------------------------------------------------------------
(* Session state and its handlers *)

Modes == {"Interactive Translator", "Batch File Translator", "About"}

\* time.strftime("%Y-%m-%d %H:%M:%S"): the wall clock is outside the program, and
\* nothing reads a timestamp back, so one value stands for the current time
Timestamps == {"2026-01-01 00:00:00"}

\* a variant that always exchanges the two selections
swap_languages_unguarded(source, target) ==
    [source_lang |-> target, target_lang |-> source]

\* a variant that reads source_lang back after overwriting it
swap_languages_sequential(source, target) ==
    [source_lang |-> target, target_lang |-> target]

\* swap_languages(): the new (source_lang, target_lang)
swap_languages(source, target) ==
    [source_lang |-> target,
     target_lang |-> IF source # AutomaticDetection THEN source ELSE target]

\* the dictionary appended to the history
HistoryEntry(original, translated, source, target, timestamp) ==
    [original |-> original, translated |-> translated, source |-> source,
     target |-> target, timestamp |-> timestamp]

\* a variant that inserts the new entry at the front
RecordTranslation_prepend(h, r, original, source, target, timestamp) ==
    IF Truthy(r)
    THEN <<HistoryEntry(original, r.text, source, target, timestamp)>> \o h
    ELSE h

\* "if translated_text: ... st.session_state.history.append({...})"
RecordTranslation(h, r, original, source, target, timestamp) ==
    IF Truthy(r)
    THEN Append(h, HistoryEntry(original, r.text, source, target, timestamp))
    ELSE h

\* DataFrame(history).iloc[::-1]
RECURSIVE Reverse(_)
Reverse(s) == IF s = << >> THEN << >> ELSE Append(Reverse(Tail(s)), Head(s))

\* the table the interactive page renders under "if st.session_state.history:"
RenderHistory(mode, h) ==
    IF mode = "Interactive Translator" /\ h # << >> THEN Reverse(h) ELSE << >>

\* a script run that is not inside the batch loop leaves no batch state behind
NoBatch ==
    /\ pc' = "idle"
    /\ df' = << >>
    /\ dest_code' = "None"
    /\ i' = 0
    /\ translations' = << >>
    /\ progress_bar' = [num |-> 0, den |-> 1]
    /\ progress' = << >>
    /\ out_column' = [name |-> "None", values |-> << >>]

\* a script run that never calls perform_translation
NoResolve ==
    /\ args' = NoArgs
    /\ ret' = NoneResult
    /\ calls' = << >>
    /\ errors' = 0
    /\ uncaught' = "None"

\* the state after the first script run (lines 40-46)
InitSession ==
    /\ history = << >>
    /\ source_lang = AutomaticDetection
    /\ target_lang = "urdu"
    /\ input_text = << >>
    /\ app_mode = "Interactive Translator"
    /\ last_op = "init"
    /\ args = NoArgs
    /\ ret = NoneResult
    /\ calls = << >>
    /\ errors = 0
    /\ uncaught = "None"
    /\ history_df = << >>
    /\ pc = "idle"
    /\ df = << >>
    /\ dest_code = "None"
    /\ i = 0
    /\ translations = << >>
    /\ progress_bar = [num |-> 0, den |-> 1]
    /\ progress = << >>
    /\ out_column = [name |-> "None", values |-> << >>]

\* the sidebar radio
SetMode(m) ==
    /\ pc # "loop"
    /\ m # app_mode
    /\ app_mode' = m
    /\ last_op' = "mode"
    /\ history_df' = RenderHistory(m, history)
    /\ NoResolve /\ NoBatch
    /\ UNCHANGED << history, source_lang, target_lang, input_text >>

\* the "From:" selectbox
SelectSource(name) ==
    /\ pc # "loop"
    /\ app_mode = "Interactive Translator"
    /\ name \in Range(lang_options)
    /\ name # source_lang
    /\ source_lang' = name
    /\ last_op' = "select_source"
    /\ history_df' = RenderHistory(app_mode, history)
    /\ NoResolve /\ NoBatch
    /\ UNCHANGED << history, target_lang, input_text, app_mode >>

\* the "To:" selectbox
SelectTarget(name) ==
    /\ pc # "loop"
    /\ app_mode = "Interactive Translator"
    /\ name \in Range(lang_values)
    /\ name # target_lang
    /\ target_lang' = name
    /\ last_op' = "select_target"
    /\ history_df' = RenderHistory(app_mode, history)
    /\ NoResolve /\ NoBatch
    /\ UNCHANGED << history, source_lang, input_text, app_mode >>

\* the text area
EnterText(t) ==
    /\ pc # "loop"
    /\ app_mode = "Interactive Translator"
    /\ t # input_text
    /\ input_text' = t
    /\ last_op' = "text"
    /\ history_df' = RenderHistory(app_mode, history)
    /\ NoResolve /\ NoBatch
    /\ UNCHANGED << history, source_lang, target_lang, app_mode >>

\* the swap button: on_click=swap_languages, then the rerun
Swap ==
    /\ pc # "loop"
    /\ app_mode = "Interactive Translator"
    /\ LET new == swap_languages(source_lang, target_lang)
       IN /\ source_lang' = new.source_lang
          /\ target_lang' = new.target_lang
    /\ last_op' = "swap"
    /\ history_df' = RenderHistory(app_mode, history)
    /\ NoResolve /\ NoBatch
    /\ UNCHANGED << history, input_text, app_mode >>

\* the "Translate" button (lines 126-151) and the history table after it
Translate ==
    /\ pc # "loop"
    /\ app_mode = "Interactive Translator"
    /\ Len(history) < MaxHistory
    /\ last_op' = "translate"
    /\ NoBatch
    /\ UNCHANGED << source_lang, target_lang, input_text, app_mode >>
    /\ IF source_lang \notin DOMAIN lang_codes \/ target_lang \notin DOMAIN lang_codes
       THEN \* KeyError at line 127 or 128 ends the run
            /\ uncaught' = "KeyError"
            /\ args' = NoArgs
            /\ ret' = NoneResult
            /\ calls' = << >>
            /\ errors' = 0
            /\ history_df' = << >>
            /\ UNCHANGED history
       ELSE \E d \in DetectOutcomes, t \in TranslateOutcomes(input_text), ts \in Timestamps :
            LET src_code == lang_codes[source_lang]
                dst_code == lang_codes[target_lang]
                r == perform_translation(input_text, src_code, dst_code, d, t)
            IN /\ args' = Args(input_text, src_code, dst_code)
               /\ ret' = r.ret
               /\ calls' = r.calls
               /\ errors' = r.errors
               /\ IF r.escaped
                  THEN /\ uncaught' = "Exception"
                       /\ history_df' = << >>
                       /\ UNCHANGED history
                  ELSE /\ uncaught' = "None"
                       /\ history' = RecordTranslation(history, r.ret, input_text,
                                         source_lang, target_lang, ts)
                       /\ history_df' = RenderHistory(app_mode, history')

\* the "Clear History" button, rendered only while the history is not empty
ClearHistory ==
    /\ pc # "loop"
    /\ app_mode = "Interactive Translator"
    /\ history # << >>
    /\ history' = << >>
    /\ last_op' = "clear"
    /\ history_df' = RenderHistory(app_mode, history')
    /\ NoResolve /\ NoBatch
    /\ UNCHANGED << source_lang, target_lang, input_text, app_mode >>

-----------------------------------------------------------------------------
(* Batch file translator *)

\* a cell of the selected column: a text, or a missing value (NaN)
TextCell(t) == [nan |-> FALSE, text |-> t]

NaNCell == [nan |-> TRUE, text |-> << >>]

\* str(text)
Str(cell) == IF cell.nan THEN <<"n", "a", "n">> ELSE cell.text

\* read_csv yields NaN for an empty field, so a text cell is never empty
Cells == {TextCell(t) : t \in SampleTexts \ {<< >>}} \cup {NaNCell}

Batches == UNION {[1..k -> Cells] : k \in 0..MaxRows}

\* the uploads tried while a session history exists
SessionBatches == {<<TextCell(<<"a">>)>>}

\* the literal "Error"
ErrorMarker == <<"E", "r", "r", "o", "r">>

\* translated or "Error"
BatchOutcome(r) == IF Truthy(r) THEN r.text ELSE ErrorMarker

\* a variant that reports i / len(df)
ProgressValue_before_row(k, n) == [num |-> k, den |-> n]

\* (i + 1) / len(df), kept as a fraction
ProgressValue(k, n) == [num |-> k + 1, den |-> n]

FracLeq(a, b) == a.num * b.den <= b.num * a.den

\* the "Translate File" button up to the start of the loop (lines 182-185)
TranslateFile(cells, name) ==
    /\ pc # "loop"
    /\ app_mode = "Batch File Translator"
    /\ name \in Range(lang_values)
    /\ pc' = "loop"
    /\ df' = cells
    /\ dest_code' = NameToCode[name]
    /\ i' = 0
    /\ translations' = << >>
    /\ progress_bar' = [num |-> 0, den |-> 1]
    /\ progress' = << >>
    /\ out_column' = [name |-> "None", values |-> << >>]
    /\ last_op' = "translate_file"
    /\ history_df' = << >>
    /\ NoResolve
    /\ UNCHANGED sessionVars

\* one iteration of the loop (lines 187-190); an exception leaving it is caught
\* at line 203
BatchRow ==
    /\ pc = "loop"
    /\ i < Len(df)
    /\ \E d \in DetectOutcomes, t \in TranslateOutcomes(Str(df[i + 1])) :
        LET text == Str(df[i + 1])
            r == perform_translation(text, "auto", dest_code, d, t)
        IN /\ args' = Args(text, "auto", dest_code)
           /\ ret' = r.ret
           /\ calls' = r.calls
           /\ IF r.escaped
              THEN /\ pc' = "aborted"
                   /\ errors' = errors + r.errors + 1
                   /\ UNCHANGED << i, translations, progress_bar, progress >>
              ELSE /\ pc' = "loop"
                   /\ errors' = errors + r.errors
                   /\ translations' = Append(translations, BatchOutcome(r.ret))
                   /\ progress_bar' = ProgressValue(i, Len(df))
                   /\ progress' = Append(progress, ProgressValue(i, Len(df)))
                   /\ i' = i + 1
    /\ UNCHANGED << df, dest_code, out_column, last_op, uncaught, history_df >>
    /\ UNCHANGED sessionVars

\* the end of the loop: the new column "translated_<dest_code>" (lines 192-194)
BatchFinish ==
    /\ pc = "loop"
    /\ i = Len(df)
    /\ pc' = "done"
    /\ out_column' = [name |-> dest_code, values |-> translations]
    /\ UNCHANGED << df, dest_code, i, translations, progress_bar, progress >>
    /\ UNCHANGED << last_op, args, ret, calls, errors, uncaught, history_df >>
    /\ UNCHANGED sessionVars

-----------------------------------------------------------------------------
(* Specifications *)

Init == InitSession

Next ==
    \/ \E m \in Modes : SetMode(m)
    \/ \E name \in Range(lang_options) : SelectSource(name)
    \/ \E name \in Range(lang_values) : SelectTarget(name)
    \/ \E t \in SampleTexts : EnterText(t)
    \/ Swap
    \/ Translate
    \/ ClearHistory
    \/ \E cells \in SessionBatches, name \in Range(lang_values) : TranslateFile(cells, name)
    \/ BatchRow
    \/ BatchFinish

\* the whole application
Spec == Init /\ [][Next]_vars

\* the batch page, opened in a fresh session (Init followed by SetMode)
InitBatch ==
    /\ history = << >>
    /\ source_lang = AutomaticDetection
    /\ target_lang = "urdu"
    /\ input_text = << >>
    /\ app_mode = "Batch File Translator"
    /\ last_op = "mode"
    /\ args = NoArgs
    /\ ret = NoneResult
    /\ calls = << >>
    /\ errors = 0
    /\ uncaught = "None"
    /\ history_df = << >>
    /\ pc = "idle"
    /\ df = << >>
    /\ dest_code = "None"
    /\ i = 0
    /\ translations = << >>
    /\ progress_bar = [num |-> 0, den |-> 1]
    /\ progress = << >>
    /\ out_column = [name |-> "None", values |-> << >>]

NextBatch ==
    \/ \E cells \in Batches, name \in Range(lang_values) : TranslateFile(cells, name)
    \/ BatchRow
    \/ BatchFinish

SpecBatch == InitBatch /\ [][NextBatch]_vars

\* perform_translation on its own: every argument triple, then the call
InitResolve ==
    /\ args \in {Args(text, src, dest) :
                    text \in Texts, src \in Codes \cup {"auto"}, dest \in Codes}
    /\ last_op = "request"
    /\ history = << >>
    /\ source_lang = AutomaticDetection
    /\ target_lang = "urdu"
    /\ input_text = << >>
    /\ app_mode = "Interactive Translator"
    /\ ret = NoneResult
    /\ calls = << >>
    /\ errors = 0
    /\ uncaught = "None"
    /\ history_df = << >>
    /\ pc = "idle"
    /\ df = << >>
    /\ dest_code = "None"
    /\ i = 0
    /\ translations = << >>
    /\ progress_bar = [num |-> 0, den |-> 1]
    /\ progress = << >>
    /\ out_column = [name |-> "None", values |-> << >>]

Resolve ==
    /\ last_op = "request"
    /\ last_op' = "resolve"
    /\ \E d \in DetectOutcomes, t \in TranslateOutcomes(args.text) :
        LET r == perform_translation(args.text, args.src, args.dest, d, t)
        IN /\ ret' = r.ret
           /\ calls' = r.calls
           /\ errors' = r.errors
           /\ uncaught' = IF r.escaped THEN "Exception" ELSE "None"
    /\ UNCHANGED << args, history_df >>
    /\ UNCHANGED sessionVars
    /\ UNCHANGED batchVars

NextResolve == Resolve

SpecResolve == InitResolve /\ [][NextResolve]_vars

-----------------------------------------------------------------------------
(* Properties of the language selections (Spec) *)

\* C1: in every reachable state the target selection is not "Automatic
\* Detection", and the target code handed to perform_translation is not "auto".
C1_TargetNeverAuto ==
    /\ target_lang # AutomaticDetection
    /\ args.dest # "auto"

\* a swap from the "Automatic Detection" source has just run: both selections
\* now hold the old target
C1_Witness ==
    /\ last_op = "swap"
    /\ source_lang = target_lang
    /\ target_lang \in Range(lang_values)

\* C2: a swap sets the source to the old target; it sets the target to the old
\* source exactly when the old source is not "Automatic Detection" and keeps the
\* target otherwise; history, text and mode are untouched.
C2_SwapRule ==
    [][last_op' = "swap" =>
        /\ source_lang' = target_lang
        /\ (source_lang # AutomaticDetection => target_lang' = source_lang)
        /\ (source_lang = AutomaticDetection =>
                target_lang' = target_lang /\ source_lang' = target_lang')
        /\ history' = history
        /\ input_text' = input_text
        /\ app_mode' = app_mode]_vars

\* a swap of two different languages has just run
C2_Witness ==
    /\ last_op = "swap"
    /\ source_lang # target_lang
    /\ source_lang # AutomaticDetection

\* C10: the source selection is "Automatic Detection" or a catalog name, the
\* target selection is a catalog name, both have a code, and no Translate run
\* ended in a KeyError.
C10_SelectionsHaveCodes ==
    /\ source_lang \in {AutomaticDetection} \cup Range(lang_values)
    /\ target_lang \in Range(lang_values)
    /\ source_lang \in DOMAIN lang_codes
    /\ target_lang \in DOMAIN lang_codes
    /\ uncaught # "KeyError"

\* a Translate run looked both selections up, the source being "Automatic
\* Detection"
C10_Witness ==
    /\ last_op = "translate"
    /\ uncaught = "None"
    /\ source_lang = AutomaticDetection
    /\ args.src = "auto"
    /\ args.dest = "ur"

-----------------------------------------------------------------------------
(* Properties of perform_translation (SpecResolve) *)

OnlySpaces(text) == \A k \in 1..Len(text) : text[k] = " "

SomeCallRaised == \E k \in 1..Len(calls) : calls[k].raised

\* C3: for an empty or whitespace-only text perform_translation returns
\* (None, None), calls neither detect nor translate and reports no error.
C3_BlankText ==
    (last_op = "resolve" /\ OnlySpaces(args.text)) =>
        /\ ret = NoneResult
        /\ calls = << >>
        /\ errors = 0
        /\ uncaught = "None"

\* the call was made with two spaces
C3_Witness ==
    /\ last_op = "resolve"
    /\ args.text = <<" ", " ">>
    /\ ret.none

\* C4: when detect or translate raises, perform_translation reports one error,
\* returns (None, None), lets no exception out, and after a failed detect does
\* not call translate.
C4_ProviderFailure ==
    (last_op = "resolve" /\ SomeCallRaised) =>
        /\ errors = 1
        /\ ret = NoneResult
        /\ uncaught = "None"
        /\ (calls[1].op = "detect" /\ calls[1].raised => Len(calls) = 1)
        /\ \A k \in 1..(Len(calls) - 1) : ~calls[k].raised

\* detect raised on a text with a leading space
C4_Witness ==
    /\ last_op = "resolve"
    /\ args.text = <<" ", "a">>
    /\ Len(calls) = 1
    /\ calls[1].op = "detect"
    /\ calls[1].raised
    /\ errors = 1

\* C9: for a text that is not blank and a provider that does not raise,
\* perform_translation returns the text translate returned and a source code
\* that is not "auto": the code detect returned (which translate was called
\* with) when the requested source is "auto", else the requested source with
\* no detect call.  When translate echoes its input, (text, code, code) gives
\* (text, code).
C9_SuccessfulResolve ==
    /\ (last_op = "resolve" /\ ~OnlySpaces(args.text) /\ ~SomeCallRaised) =>
            /\ ~ret.none
            /\ uncaught = "None"
            /\ errors = 0
    /\ (last_op = "resolve" /\ ~ret.none) =>
        LET tc == calls[Len(calls)]
        IN /\ tc.op = "translate"
           /\ tc.text = args.text
           /\ tc.dest = args.dest
           /\ ret.text = tc.out
           /\ ret.src = tc.src
           /\ ret.src # "auto"
           /\ IF args.src = "auto"
              THEN /\ Len(calls) = 2
                   /\ calls[1].op = "detect"
                   /\ calls[1].text = args.text
                   /\ ret.src = calls[1].lang
              ELSE /\ Len(calls) = 1
                   /\ ret.src = args.src
           /\ (tc.out = args.text /\ args.src = args.dest) =>
                    ret = Result(args.text, args.dest)

\* a detected source: the call returned what translate returned and the code
\* detect returned
C9_Witness ==
    /\ last_op = "resolve"
    /\ args.src = "auto"
    /\ ~ret.none
    /\ ret.text = <<"b">>
    /\ ret.src = "en"
    /\ Len(calls) = 2

-----------------------------------------------------------------------------
(* Properties of the batch loop (SpecBatch) *)

\* C5: the batch never aborts and yields one outcome per cell, in order; the
\* outcome of a row is the text perform_translation returned when it returned
\* one, and "Error" when it returned (None, None).
C5_BatchOutcomes ==
    /\ pc # "aborted"
    /\ pc \in {"loop", "done"} =>
        /\ Len(translations) = i
        /\ i <= Len(df)
        /\ i > 0 =>
            /\ args.text = Str(df[i])
            /\ translations[i] = IF ret.none THEN ErrorMarker ELSE ret.text
    /\ pc = "done" =>
        /\ Len(out_column.values) = Len(df)
        /\ out_column.values = translations

\* C6: progress is reported once per processed row, before the next row is
\* taken up; the k-th report is k / n whatever the outcome of row k; the reports
\* never decrease; the bar stands at exactly 1 when a batch of n > 0 rows is done.
C6_Progress ==
    pc \in {"loop", "done"} =>
        /\ Len(progress) = i
        /\ Len(translations) = Len(progress)
        /\ \A k \in 1..Len(progress) :
                /\ progress[k].den = Len(df)
                /\ progress[k].num = k
        /\ \A k \in 1..(Len(progress) - 1) : FracLeq(progress[k], progress[k + 1])
        /\ i > 0 => progress_bar = progress[i]
        /\ (pc = "done" /\ Len(df) > 0) =>
                /\ Len(progress) = Len(df)
                /\ progress_bar.num = progress_bar.den

\* a finished batch of two rows, the first failed and the second translated
C6_Witness ==
    /\ pc = "done"
    /\ Len(df) = 2
    /\ translations[1] = ErrorMarker
    /\ translations[2] = <<"b">>
    /\ progress = << [num |-> 1, den |-> 2], [num |-> 2, den |-> 2] >>

-----------------------------------------------------------------------------
(* Properties of the history (Spec) *)

IsPrefix(s, t) == Len(s) <= Len(t) /\ SubSeq(t, 1, Len(s)) = s

\* C7: a Translate run whose perform_translation call returned a text appends
\* exactly one entry holding the input text, that text, the two selections and
\* a timestamp; a run whose call returned (None, None) leaves the history as
\* it was.
C7_HistoryRecordsSuccess ==
    [][last_op' = "translate" =>
        IF ret'.none
        THEN history' = history
        ELSE \E ts \in Timestamps :
                history' = Append(history,
                    HistoryEntry(input_text, ret'.text, source_lang, target_lang, ts))]_vars

\* C8: outside a clear the history only grows, by at most one entry at its end,
\* and only in a Translate run; a clear empties it; the table the interactive
\* page shows is the history in reverse order.
C8_AppendOnlyHistory ==
    [][/\ last_op' = "clear" => history' = << >>
       /\ last_op' # "clear" =>
            /\ IsPrefix(history, history')
            /\ Len(history') <= Len(history) + 1
       /\ last_op' \notin {"clear", "translate"} => history' = history
       /\ (app_mode' = "Interactive Translator" /\ uncaught' = "None") =>
            /\ Len(history_df') = Len(history')
            /\ \A k \in 1..Len(history') :
                    history_df'[k] = history'[Len(history') - k + 1]]_vars

\* two different entries were appended and are shown newest first
C8_Witness ==
    /\ last_op = "translate"
    /\ Len(history) = 2
    /\ history[1] # history[2]
    /\ history_df = <<history[2], history[1]>>

====
